---- MODULE Spec2Model ----
(***************************************************************************)
(* A model of the reactor-data scripts:                                    *)
(*   scripts/fetch_iaea_data_v2.py  merge_with_existing  (variant "v2")    *)
(*   scripts/fetch_iaea_data.py     update_local_data    (variant "v1")    *)
(*   scripts/enrich_wikipedia.py    enrich_reactors      (script "wikipedia") *)
(*   scripts/enrich_wikidata.py     enrich_reactors      (script "wikidata")  *)
(* Text that the code inspects character by character (names, countries)   *)
(* is a sequence of one-character strings; text that the code only compares *)
(* or looks up (statuses, URLs) is a string.                               *)
(***************************************************************************)
EXTENDS Integers, Sequences, FiniteSets, TLC

VARIABLES
    \* ---- the merge scripts ----
    variant,            \* which script runs: "v1" or "v2"
    data_file,          \* nuclear_power_plants.json: the canonical records
    output_file,        \* nuclear_power_plants_updated.json (<< >> before a save)
    existing_data,      \* the records loaded by the merge, mutated in place
    existing_by_iaea,   \* IAEAId -> position in existing_data, built at load
    existing_by_name,   \* name key -> position in existing_data, built at load
    iaea_reactors,      \* the incoming list, when it is fixed for a re-run
    stats,              \* updated / new / matched counters of the running merge
    now,                \* the clock reading taken by the merge
    mpc,                \* "start", "loop", "done"
    i,                  \* incoming rows processed by the running merge
    run,                \* merges started so far
    last,               \* the row processed by the latest loop iteration
    \* ---- the enrichment scripts ----
    script,             \* "wikipedia" or "wikidata" ("none" while a merge runs)
    reactors,           \* the loaded records, mutated in place
    plant_cache,        \* cache key -> lookup result
    enriched_count,
    idx,                \* enumerate index of the next reactor
    epc,                \* "loop", "done"
    saved,              \* the output file: number of dumps and last content
    lookups,            \* the lookups issued, in order: cache key and item
    served,             \* how the latest item was handled
    paced,              \* time.sleep has run since the latest lookup
    \* ---- the table parsers ----
    parser,             \* "v1" IAEAReactorParser, "v2" ReactorTableParser
    self,               \* the parser object: flags, counter, text, row, rows
    aliased,            \* current_reactor is the object last appended to reactors
    raised,             \* the exception that left a handler ("none" if none)
    ndata,              \* text events delivered so far
    last_event,         \* the event delivered last, where the run records it
    \* ---- a run of a script's main ----
    program,            \* the script that runs
    input_exists,       \* nuclear_power_plants.json is there
    fpc,                \* where the run is
    retries,            \* request attempts fetch_page may make
    attempt,            \* attempts made by the fetch_page call in progress
    pages_left,         \* pages (or items) still to request
    log,                \* requests, sleeps and file operations, in order
    exception,          \* the exception that ended the run ("none" if none)
    \* ---- status normalization ----
    incoming_status,    \* the status text of an incoming row
    applied             \* the successive normalizations of it

mergeVars == <<variant, data_file, output_file, existing_data, existing_by_iaea,
               existing_by_name, iaea_reactors, stats, now, mpc, i, run, last>>
enrichVars == <<script, reactors, plant_cache, enriched_count, idx, epc, saved,
                lookups, served, paced>>
extractVars == <<parser, self, aliased, raised, ndata, last_event>>
runVars == <<program, input_exists, fpc, retries, attempt, pages_left, log,
             exception>>
normVars == <<incoming_status, applied>>
laterVars == <<extractVars, runVars, normVars>>
vars == <<mergeVars, enrichVars, laterVars>>

(***************************************************************************)
(* Python values                                                           *)
(***************************************************************************)
\* None (or a missing key read with .get) in an integer-valued field
NoneInt == -1
\* None (or a missing key read with .get) in a string-valued field
NoneStr == "<None>"

\* Python truthiness of an int-or-None and of a str-or-None
TruthyInt(x) == x # NoneInt /\ x # 0
TruthyStr(s) == s # NoneStr /\ s # ""

Max(S) == CHOOSE x \in S : \A y \in S : y <= x

\* str.lower() on one character, then on a text
LowerChar(c) ==
    CASE c = "A" -> "a"
      [] c = "B" -> "b"
      [] c = "C" -> "c"
      [] c = "U" -> "u"
      [] c = "N" -> "n"
      [] c = "I" -> "i"
      [] c = "T" -> "t"
      [] OTHER -> c
Lower(s) == [k \in 1..Len(s) |-> LowerChar(s[k])]

(***************************************************************************)
(* FieldNormalizer: status                                                 *)
(***************************************************************************)
\* map_status of fetch_iaea_data_v2.py: status_map.get(raw_status, raw_status)
map_status_chained(raw_status) ==
    CASE raw_status = "Operational" -> "Operational"
      [] raw_status = "Under Construction" -> "Under Construction"
      [] raw_status = "Permanent Shutdown" -> "Long-term Shutdown"
      [] raw_status = "Suspended Operation" -> "Suspended Operation"
      [] raw_status = "Suspended Construction" -> "Suspended Construction"
      [] raw_status = "Long-term Shutdown" -> "Suspended Operation"
      [] raw_status = "Planned" -> "Planned"
      [] OTHER -> raw_status
map_status(raw_status) ==
    CASE raw_status = "Operational" -> "Operational"
      [] raw_status = "Under Construction" -> "Under Construction"
      [] raw_status = "Permanent Shutdown" -> "Shutdown"
      [] raw_status = "Suspended Operation" -> "Suspended Operation"
      [] raw_status = "Suspended Construction" -> "Suspended Construction"
      [] raw_status = "Long-term Shutdown" -> "Suspended Operation"
      [] raw_status = "Planned" -> "Planned"
      [] OTHER -> raw_status

\* the inline status_map of update_local_data (fetch_iaea_data.py)
map_status_v1(raw_status) ==
    CASE raw_status = "Operational" -> "Operational"
      [] raw_status = "Under Construction" -> "Under Construction"
      [] raw_status = "Permanent Shutdown" -> "Shutdown"
      [] raw_status = "Suspended Operation" -> "Suspended Operation"
      [] OTHER -> raw_status

(***************************************************************************)
(* EntityMatcher                                                           *)
(***************************************************************************)
\* v2: f"{name.lower()}_{country.lower()}"
NameKeyV2(name, country) == Lower(name) \o <<"_">> \o Lower(country)
\* v1: name.lower()
NameKeyV1(name, country) == Lower(name)
NameKey(v, name, country) ==
    IF v = "v2" THEN NameKeyV2(name, country) ELSE NameKeyV1(name, country)

\* {r.get("IAEAId"): r for r in existing_data if r.get("IAEAId")}: a later
\* record with the same id replaces an earlier one
BuildByIaea(data) ==
    LET ids == {data[k].IAEAId : k \in {j \in 1..Len(data) : TruthyInt(data[j].IAEAId)}}
    IN  [id \in ids |-> Max({k \in 1..Len(data) : data[k].IAEAId = id})]

\* existing_by_name[name_key] = r for every record, in order
BuildByName(v, data) ==
    LET keys == {NameKey(v, data[k].Name, data[k].Country) : k \in 1..Len(data)}
    IN  [key \in keys |->
            Max({k \in 1..Len(data) : NameKey(v, data[k].Name, data[k].Country) = key})]

\* dict.get(key): the position stored under key, 0 for None
DictGet(d, key) == IF key \in DOMAIN d THEN d[key] ELSE 0

\* existing_by_iaea.get(iaea_id) or existing_by_name.get(name_key)
FindExisting(v, byIaea, byName, row) ==
    LET byId == DictGet(byIaea, row.iaea_id)
    IN  IF byId # 0 THEN byId
        ELSE DictGet(byName, NameKey(v, row.name, row.country))

(***************************************************************************)
(* Reconciler                                                              *)
(***************************************************************************)
\* if new_capacity and existing.get("Capacity") != new_capacity
CapacityDiffersUnguarded(existing, new_capacity) ==
    existing.Capacity # new_capacity
CapacityDiffers(existing, new_capacity) ==
    TruthyInt(new_capacity) /\ existing.Capacity # new_capacity

\* if new_status and existing.get("Status") != new_status
StatusDiffers(existing, new_status) ==
    TruthyStr(new_status) /\ existing.Status # new_status

\* if iaea_id and not existing.get("IAEAId")
IaeaIdMissingUnguarded(existing, iaea_id) ==
    TruthyInt(iaea_id)
IaeaIdMissing(existing, iaea_id) ==
    TruthyInt(iaea_id) /\ ~TruthyInt(existing.IAEAId)

\* the matched branch of merge_with_existing: the record after the row, and
\* the number of times stats["updated"] is incremented
ReconcileV2(existing, row, t) ==
    LET c1 == CapacityDiffers(existing, row.capacity)
        e1 == IF c1 THEN [existing EXCEPT !.Capacity = row.capacity] ELSE existing
        new_status == map_status(row.status)
        c2 == StatusDiffers(e1, new_status)
        e2 == IF c2 THEN [e1 EXCEPT !.Status = new_status] ELSE e1
        c3 == IaeaIdMissing(e2, row.iaea_id)
        e3 == IF c3 THEN [e2 EXCEPT !.IAEAId = row.iaea_id] ELSE e2
        changed == c1 \/ c2 \/ c3
    IN  [rec |-> IF changed THEN [e3 EXCEPT !.LastUpdatedAt = t] ELSE e3,
         changed |-> changed,
         updated |-> IF changed THEN 1 ELSE 0,
         matched |-> 1]

\* the matched branch of update_local_data: updated_count counts field
\* overwrites, LastUpdatedAt is set on every match, no id is added
ReconcileV1(existing, row, t) ==
    LET c1 == CapacityDiffers(existing, row.capacity)
        e1 == IF c1 THEN [existing EXCEPT !.Capacity = row.capacity] ELSE existing
        new_status == map_status_v1(row.status)
        c2 == StatusDiffers(e1, new_status)
        e2 == IF c2 THEN [e1 EXCEPT !.Status = new_status] ELSE e1
    IN  [rec |-> [e2 EXCEPT !.LastUpdatedAt = t],
         changed |-> c1 \/ c2,
         updated |-> (IF c1 THEN 1 ELSE 0) + (IF c2 THEN 1 ELSE 0),
         matched |-> 0]

Reconcile(v, existing, row, t) ==
    IF v = "v2" THEN ReconcileV2(existing, row, t) ELSE ReconcileV1(existing, row, t)

\* the else branch (no existing record): the row is printed and counted; the
\* record list is what it was
OnNoMatchInserting(data, row) ==
    Append(data, [Name |-> row.name, Country |-> row.country,
                  Capacity |-> row.capacity, Status |-> row.status,
                  IAEAId |-> row.iaea_id, LastUpdatedAt |-> NoneInt])
OnNoMatch(data, row) == data

(***************************************************************************)
(* Bounds and input domains of the merge                                   *)
(***************************************************************************)
MaxCanon == 2       \* records in the canonical file
MaxRows == 2        \* incoming rows per merge
MaxRuns == 2        \* merges of the same list, one after the other

\* (name, country) pairs: "A"/"a" differ in case only; "a_b"+"c" and
\* "a"+"b_c" differ in both parts and join to the same text around "_"
Idents == {<<<<"A">>, <<"c">>>>,
           <<<<"a", "_", "b">>, <<"c">>>>,
           <<<<"a">>, <<"b", "_", "c">>>>}
RowIdents == {<<<<"a">>, <<"c">>>>,
              <<<<"a", "_", "b">>, <<"c">>>>,
              <<<<"a">>, <<"b", "_", "c">>>>}

\* records of the canonical file
CanonRecords ==
    {[Name |-> id[1], Country |-> id[2], Capacity |-> f[1], Status |-> f[2],
      IAEAId |-> x, LastUpdatedAt |-> NoneInt] :
        id \in Idents,
        f \in {<<NoneInt, "Operational">>, <<100, "Shutdown">>},
        x \in {NoneInt, 7}}

\* the data model's invariant on the canonical file: no two records share an
\* external id, none share the lower-cased (name, country) pair
IdsUnique(data) ==
    \A j, k \in 1..Len(data) :
        j # k => ~(TruthyInt(data[j].IAEAId) /\ data[j].IAEAId = data[k].IAEAId)
CanonUnique(data) ==
    /\ IdsUnique(data)
    /\ \A j, k \in 1..Len(data) :
        j # k => <<Lower(data[j].Name), Lower(data[j].Country)>>
                     # <<Lower(data[k].Name), Lower(data[k].Country)>>

SeqsUpTo(S, n) == UNION {[1..m -> S] : m \in 0..n}

CanonFiles == {d \in SeqsUpTo(CanonRecords, MaxCanon) : CanonUnique(d)}

\* incoming rows: every identity with and without an id, and for one
\* identity the absent, empty and differing field values
Rows ==
    {[name |-> id[1], country |-> id[2], capacity |-> 200,
      status |-> "Permanent Shutdown", iaea_id |-> x] :
        id \in RowIdents, x \in {NoneInt, 7}}
    \cup
    {[name |-> <<"a">>, country |-> <<"c">>, capacity |-> f[1],
      status |-> f[2], iaea_id |-> NoneInt] :
        f \in {<<NoneInt, NoneStr>>, <<100, "">>, <<NoneInt, "Operational">>}}

NoRow == [name |-> << >>, country |-> << >>, capacity |-> NoneInt,
          status |-> NoneStr, iaea_id |-> NoneInt]
NoLast == [row |-> NoRow, match |-> 0, changed |-> FALSE, repeat |-> FALSE]
NoStats == [updated |-> 0, new |-> 0, matched |-> 0]

(***************************************************************************)
(* The parts of the system that are not running                            *)
(***************************************************************************)
ExtractIdle ==
    /\ parser = "none"
    /\ self = << >>
    /\ aliased = FALSE
    /\ raised = "none"
    /\ ndata = 0
    /\ last_event = "none"

RunIdle ==
    /\ program = "none"
    /\ input_exists = FALSE
    /\ fpc = "idle"
    /\ retries = 0
    /\ attempt = 0
    /\ pages_left = 0
    /\ log = << >>
    /\ exception = "none"

NormIdle ==
    /\ incoming_status = NoneStr
    /\ applied = << >>

(***************************************************************************)
(* The enrichment scripts are idle while a merge script runs               *)
(***************************************************************************)
EnrichIdle ==
    /\ script = "none"
    /\ reactors = << >>
    /\ plant_cache = << >>
    /\ enriched_count = 0
    /\ idx = 0
    /\ epc = "idle"
    /\ saved = [writes |-> 0, content |-> << >>]
    /\ lookups = << >>
    /\ served = "none"
    /\ paced = TRUE

(***************************************************************************)
(* The merge: merge_with_existing / update_local_data, with main's save     *)
(***************************************************************************)
MergeInit ==
    /\ variant \in {"v1", "v2"}
    /\ data_file \in CanonFiles
    /\ output_file = << >>
    /\ existing_data = << >>
    /\ existing_by_iaea = << >>
    /\ existing_by_name = << >>
    /\ iaea_reactors = << >>
    /\ stats = NoStats
    /\ now = 0
    /\ mpc = "start"
    /\ i = 0
    /\ run = 0
    /\ last = NoLast
    /\ EnrichIdle
    /\ ExtractIdle
    /\ RunIdle
    /\ NormIdle

\* json.load, the two lookups, the counters; v2 reads the clock once here
LoadBody ==
    /\ existing_data' = data_file
    /\ existing_by_iaea' = BuildByIaea(data_file)
    /\ existing_by_name' = BuildByName(variant, data_file)
    /\ stats' = NoStats
    /\ now' = now + 1
    /\ mpc' = "loop"
    /\ i' = 0
    /\ run' = run + 1
    /\ last' = NoLast
    /\ UNCHANGED <<variant, data_file, output_file, iaea_reactors, enrichVars, laterVars>>

Load ==
    /\ mpc = "start"
    /\ LoadBody

\* one iteration of `for iaea_reactor in iaea_reactors`; v1 reads the clock
\* for every matched row
MergeRow(row) ==
    /\ mpc = "loop"
    /\ LET k == FindExisting(variant, existing_by_iaea, existing_by_name, row)
           t == IF variant = "v1" THEN now + 1 ELSE now
           r == Reconcile(variant, existing_data[k], row, t)
       IN  IF k # 0
           THEN /\ existing_data' = [existing_data EXCEPT ![k] = r.rec]
                /\ stats' = [stats EXCEPT !.updated = @ + r.updated,
                                          !.matched = @ + r.matched]
                /\ now' = t
                /\ last' = [row |-> row, match |-> k, changed |-> r.changed,
                            repeat |-> (last.row = row /\ last.match = k)]
           ELSE /\ existing_data' = OnNoMatch(existing_data, row)
                /\ stats' = [stats EXCEPT !.new = @ + 1]
                /\ now' = now
                /\ last' = [row |-> row, match |-> 0, changed |-> FALSE,
                            repeat |-> FALSE]
    /\ i' = i + 1
    /\ UNCHANGED <<variant, data_file, output_file, existing_by_iaea,
                   existing_by_name, iaea_reactors, mpc, run, enrichVars, laterVars>>

\* the loop ends; main dumps the returned list to the output file
FinishBody ==
    /\ mpc = "loop"
    /\ output_file' = existing_data
    /\ mpc' = "done"
    /\ UNCHANGED <<variant, data_file, existing_data, existing_by_iaea,
                   existing_by_name, iaea_reactors, stats, now, i, run, last,
                   enrichVars, laterVars>>

\* the incoming list is any list of at most MaxRows rows
NextRow == \E row \in Rows : i < MaxRows /\ MergeRow(row)
Finish == FinishBody

MergeNext ==
    \/ Load
    \/ NextRow
    \/ Finish

SpecMerge == MergeInit /\ [][MergeNext]_vars

(***************************************************************************)
(* The same incoming list merged again into the result of the first merge  *)
(***************************************************************************)
RerunInit ==
    /\ variant = "v2"
    /\ data_file \in CanonFiles
    /\ output_file = << >>
    /\ existing_data = << >>
    /\ existing_by_iaea = << >>
    /\ existing_by_name = << >>
    /\ iaea_reactors \in SeqsUpTo(Rows, MaxRows)
    /\ stats = NoStats
    /\ now = 0
    /\ mpc = "start"
    /\ i = 0
    /\ run = 0
    /\ last = NoLast
    /\ EnrichIdle
    /\ ExtractIdle
    /\ RunIdle
    /\ NormIdle

\* "Review the changes, then rename to nuclear_power_plants.json to apply."
Rename ==
    /\ mpc = "done"
    /\ data_file # output_file
    /\ data_file' = output_file
    /\ UNCHANGED <<variant, output_file, existing_data, existing_by_iaea,
                   existing_by_name, iaea_reactors, stats, now, mpc, i, run, last,
                   enrichVars, laterVars>>

\* the script is started again on the renamed file
LoadAgain ==
    /\ mpc = "done"
    /\ data_file = output_file
    /\ run < MaxRuns
    /\ LoadBody

ReplayRow == i < Len(iaea_reactors) /\ MergeRow(iaea_reactors[i + 1])
ReplayFinish == i = Len(iaea_reactors) /\ FinishBody

RerunNext ==
    \/ Load
    \/ ReplayRow
    \/ ReplayFinish
    \/ Rename
    \/ LoadAgain

SpecRerun == RerunInit /\ [][RerunNext]_vars

(***************************************************************************)
(* FieldNormalizer: base plant name                                        *)
(***************************************************************************)
IsDigit(c) == c \in {"0", "1", "2", "3", "4", "5", "6", "7", "8", "9"}
IsSpace(c) == c = " "
\* [-\s]
IsSepChar(c) == c = "-" \/ IsSpace(c)

\* (Unit\s*)? with re.IGNORECASE
UnitPart(u) ==
    \/ u = << >>
    \/ /\ Len(u) >= 4
       /\ Lower(SubSeq(u, 1, 4)) = <<"u", "n", "i", "t">>
       /\ \A k \in 5..Len(u) : IsSpace(u[k])

\* t matches [-\s]*(Unit\s*)?\d+ as a whole (the pattern ends with $)
UnitSuffix(t) ==
    \E a \in 0..Len(t) : \E b \in a..(Len(t) - 1) :
        /\ \A k \in 1..a : IsSepChar(t[k])
        /\ UnitPart(SubSeq(t, a + 1, b))
        /\ \A k \in (b + 1)..Len(t) : IsDigit(t[k])

\* str.strip()
Strip(s) ==
    LET keep == {k \in 1..Len(s) : ~IsSpace(s[k])}
    IN  IF keep = {} THEN << >>
        ELSE SubSeq(s, CHOOSE k \in keep : \A j \in keep : k <= j, Max(keep))

\* re.sub(r'[-\s]*(Unit\s*)?\d+$', '', name, flags=re.IGNORECASE).strip():
\* the leftmost position from which the rest of the name matches is cut off
BaseName(name) ==
    LET starts == {k \in 1..Len(name) : UnitSuffix(SubSeq(name, k, Len(name)))}
    IN  IF starts = {} THEN Strip(name)
        ELSE Strip(SubSeq(name, 1, (CHOOSE k \in starts : \A j \in starts : k <= j) - 1))

(***************************************************************************)
(* EnrichmentCache                                                         *)
(***************************************************************************)
\* `key in plant_cache`: an entry of any value, None and {} included
CacheHasResolved(cache, key) ==
    /\ key \in DOMAIN cache
    /\ IF script = "wikipedia" THEN cache[key].found ELSE DOMAIN cache[key] # {}
CacheHas(cache, key) == key \in DOMAIN cache

\* plant_cache[key] = value
CachePutRebinding(cache, key, value) == [k \in {key} |-> value]
CachePut(cache, key, value) ==
    [k \in DOMAIN cache \cup {key} |-> IF k = key THEN value ELSE cache[k]]

(***************************************************************************)
(* Lookup results                                                          *)
(***************************************************************************)
\* find_reactor_wikipedia returns None ...
NoInfo == [found |-> FALSE, title |-> NoneStr, url |-> NoneStr,
           extract |-> "", thumbnail |-> NoneStr]
\* ... or the dict built by get_page_info from page.get(...): "title" and
\* "fullurl" default to None, "extract" to "", the thumbnail source to None
PageInfos ==
    {[found |-> TRUE, title |-> "T", url |-> u, extract |-> x[1], thumbnail |-> x[2]] :
        u \in {NoneStr, "u1"}, x \in {<<"e", "t">>, <<"", NoneStr>>}}
WikiResults == {NoInfo} \cup PageInfos

\* `if wiki_info:` a dict with four keys is truthy, None is not
WikiTruthy(wiki_info) == wiki_info.found

\* get_wikidata_id_from_wikipedia returns an id or None
WikidataIds == {NoneStr, "Q1"}
\* get_wikidata_properties returns a dict field_name -> value: a label is
\* stored only when it is non-empty, a "string" datavalue is stored as
\* datavalue.get("value")
WikidataResults ==
    {<< >>}
    \cup {[k \in {"operator"} |-> "op"]}
    \cup {[k \in {"coolingSystem"} |-> v] : v \in {"cs", NoneStr}}
    \cup {[k \in {"operator", "coolingSystem"} |->
              IF k = "operator" THEN "op" ELSE "cs"]}

\* `if wikidata:` an empty dict is falsy
WikidataTruthy(wikidata) == DOMAIN wikidata # {}

\* f"Wikidata{key[0].upper()}{key[1:]}"
WikidataField(key) ==
    CASE key = "operator" -> "WikidataOperator"
      [] key = "owner" -> "WikidataOwner"
      [] key = "architect" -> "WikidataArchitect"
      [] key = "region" -> "WikidataRegion"
      [] key = "coolingSystem" -> "WikidataCoolingSystem"
      [] key = "image" -> "WikidataImage"

(***************************************************************************)
(* Writing a lookup result into a reactor                                  *)
(***************************************************************************)
\* reactor["WikipediaUrl"] = ...; reactor["WikipediaTitle"] = ...; extract
\* and thumbnail only `if wiki_info.get(...)`
ApplyWiki(reactor, wiki_info) ==
    [reactor EXCEPT
        !.WikipediaUrl = wiki_info.url,
        !.WikipediaTitle = wiki_info.title,
        !.WikipediaExtract =
            IF TruthyStr(wiki_info.extract) THEN wiki_info.extract ELSE @,
        !.WikipediaThumbnail =
            IF TruthyStr(wiki_info.thumbnail) THEN wiki_info.thumbnail ELSE @]

\* for key, value in wikidata.items(): reactor[f"Wikidata..."] = value
ApplyWikidata(reactor, wikidata) ==
    [f \in DOMAIN reactor |->
        IF \E key \in DOMAIN wikidata : WikidataField(key) = f
        THEN wikidata[CHOOSE key \in DOMAIN wikidata : WikidataField(key) = f]
        ELSE reactor[f]]

(***************************************************************************)
(* Bounds and input domains of the enrichment                              *)
(***************************************************************************)
MaxReactors == 2    \* records in the input file
SaveEvery == 50     \* "Save progress every 50 reactors"

\* "a-1" and "a Unit 2" are units of plant "a"; "b" has no unit suffix
EnrichNames == {<<"a", "-", "1">>,
                <<"a", " ", "U", "n", "i", "t", " ", "2">>,
                <<"b">>}

\* records of the input file: fresh ones and ones enriched by earlier runs,
\* and plant "b" with a page of its own
EnrichRecords ==
    {[Name |-> n, WikipediaUrl |-> p[1], WikipediaTitle |-> p[2],
      WikipediaExtract |-> NoneStr, WikipediaThumbnail |-> NoneStr,
      WikidataOperator |-> NoneStr, WikidataCoolingSystem |-> p[3]] :
        n \in EnrichNames,
        p \in {<<NoneStr, NoneStr, NoneStr>>, <<"u0", "T0", "cs0">>}}
    \cup
    {[Name |-> <<"b">>, WikipediaUrl |-> "u1", WikipediaTitle |-> "T1",
      WikipediaExtract |-> NoneStr, WikipediaThumbnail |-> NoneStr,
      WikidataOperator |-> NoneStr, WikidataCoolingSystem |-> NoneStr]}

\* a long input file: a run of units of plant "a" that were never enriched,
\* so that the records that follow sit around position SaveEvery
PadRecord ==
    [Name |-> <<"a", "-", "1">>, WikipediaUrl |-> NoneStr, WikipediaTitle |-> NoneStr,
     WikipediaExtract |-> NoneStr, WikipediaThumbnail |-> NoneStr,
     WikidataOperator |-> NoneStr, WikidataCoolingSystem |-> NoneStr]
Padding(n) == [k \in 1..n |-> PadRecord]
PadLengths == {0, SaveEvery - MaxReactors}

\* the fields the enrichment scripts write
EnrichFields == {"WikipediaUrl", "WikipediaTitle", "WikipediaExtract",
                 "WikipediaThumbnail", "WikidataOperator", "WikidataCoolingSystem"}

\* the cache key of a reactor: the base plant name, or the Wikipedia URL
CacheKey(s, reactor) ==
    IF s = "wikipedia" THEN BaseName(reactor.Name) ELSE reactor.WikipediaUrl

\* whether the script derives a cache key for the reactor at all
HasKey(s, reactor) == s = "wikipedia" \/ TruthyStr(reactor.WikipediaUrl)

\* the merge scripts are idle while an enrichment script runs
MergeIdle ==
    /\ variant = "none"
    /\ data_file = << >>
    /\ output_file = << >>
    /\ existing_data = << >>
    /\ existing_by_iaea = << >>
    /\ existing_by_name = << >>
    /\ iaea_reactors = << >>
    /\ stats = NoStats
    /\ now = 0
    /\ mpc = "idle"
    /\ i = 0
    /\ run = 0
    /\ last = NoLast

(***************************************************************************)
(* enrich_reactors of enrich_wikipedia.py and of enrich_wikidata.py        *)
(***************************************************************************)
EnrichInit ==
    /\ script \in {"wikipedia", "wikidata"}
    /\ reactors \in {Padding(n) \o tail :
                        n \in PadLengths, tail \in SeqsUpTo(EnrichRecords, MaxReactors)}
    /\ plant_cache = << >>
    /\ enriched_count = 0
    /\ idx = 0
    /\ epc = "loop"
    /\ saved = [writes |-> 0, content |-> << >>]
    /\ lookups = << >>
    /\ served = "none"
    /\ paced = TRUE
    /\ MergeIdle
    /\ ExtractIdle
    /\ RunIdle
    /\ NormIdle

\* json.dump(reactors, f)
Dump(file, content) == [writes |-> file.writes + 1, content |-> content]

\* `if (i + 1) % 50 == 0:` at the end of the loop body
Checkpoint(content) ==
    saved' = IF (idx + 1) % SaveEvery = 0 THEN Dump(saved, content) ELSE saved

\* the loop has a next item
InLoop(s) == script = s /\ epc = "loop" /\ idx < Len(reactors)

\* Wikipedia, `if base_name in plant_cache:` ... `continue`
WikipediaCacheHit ==
    /\ InLoop("wikipedia")
    /\ LET reactor == reactors[idx + 1]
           base_name == BaseName(reactor.Name)
           wiki_info == plant_cache[base_name]
       IN  /\ CacheHas(plant_cache, base_name)
           /\ IF WikiTruthy(wiki_info)
              THEN /\ reactors' = [reactors EXCEPT ![idx + 1] = ApplyWiki(reactor, wiki_info)]
                   /\ enriched_count' = enriched_count + 1
              ELSE UNCHANGED <<reactors, enriched_count>>
    /\ idx' = idx + 1
    /\ served' = "hit"
    /\ UNCHANGED <<script, plant_cache, epc, saved, lookups, paced, mergeVars, laterVars>>

\* Wikipedia, the rest of the loop body: find_reactor_wikipedia, the cache
\* write, the fields, the pacing sleep, the periodic save
WikipediaLookup(wiki_info) ==
    /\ InLoop("wikipedia")
    /\ LET reactor == reactors[idx + 1]
           base_name == BaseName(reactor.Name)
           after == IF WikiTruthy(wiki_info)
                    THEN [reactors EXCEPT ![idx + 1] = ApplyWiki(reactor, wiki_info)]
                    ELSE reactors
       IN  /\ ~CacheHas(plant_cache, base_name)
           /\ lookups' = Append(lookups, [key |-> base_name, item |-> idx + 1])
           /\ plant_cache' = CachePut(plant_cache, base_name, wiki_info)
           /\ reactors' = after
           /\ enriched_count' = IF WikiTruthy(wiki_info) THEN enriched_count + 1
                                ELSE enriched_count
           /\ Checkpoint(after)
    /\ idx' = idx + 1
    /\ served' = "lookup"
    /\ paced' = TRUE
    /\ UNCHANGED <<script, epc, mergeVars, laterVars>>

\* Wikidata, `if not wikipedia_url: continue`
WikidataSkip ==
    /\ InLoop("wikidata")
    /\ ~TruthyStr(reactors[idx + 1].WikipediaUrl)
    /\ idx' = idx + 1
    /\ served' = "skipped"
    /\ UNCHANGED <<script, reactors, plant_cache, enriched_count, epc, saved,
                   lookups, paced, mergeVars, laterVars>>

\* Wikidata, `if wikipedia_url in plant_cache:` ... `continue`
WikidataCacheHitUncounted ==
    /\ InLoop("wikidata")
    /\ LET reactor == reactors[idx + 1]
           wikipedia_url == reactor.WikipediaUrl
           wikidata == plant_cache[wikipedia_url]
       IN  /\ TruthyStr(wikipedia_url)
           /\ CacheHas(plant_cache, wikipedia_url)
           /\ reactors' = IF WikidataTruthy(wikidata)
                          THEN [reactors EXCEPT ![idx + 1] = ApplyWikidata(reactor, wikidata)]
                          ELSE reactors
    /\ idx' = idx + 1
    /\ served' = "hit"
    /\ UNCHANGED <<script, plant_cache, enriched_count, epc, saved, lookups, paced,
                   mergeVars, laterVars>>
WikidataCacheHit ==
    /\ InLoop("wikidata")
    /\ LET reactor == reactors[idx + 1]
           wikipedia_url == reactor.WikipediaUrl
           wikidata == plant_cache[wikipedia_url]
       IN  /\ TruthyStr(wikipedia_url)
           /\ CacheHas(plant_cache, wikipedia_url)
           /\ IF WikidataTruthy(wikidata)
              THEN /\ reactors' = [reactors EXCEPT ![idx + 1] = ApplyWikidata(reactor, wikidata)]
                   /\ enriched_count' = enriched_count + 1
              ELSE UNCHANGED <<reactors, enriched_count>>
    /\ idx' = idx + 1
    /\ served' = "hit"
    /\ UNCHANGED <<script, plant_cache, epc, saved, lookups, paced, mergeVars, laterVars>>

\* the cache test of the Wikidata loop fails for the next item
WikidataMiss ==
    /\ InLoop("wikidata")
    /\ LET wikipedia_url == reactors[idx + 1].WikipediaUrl
       IN  /\ TruthyStr(wikipedia_url)
           /\ ~CacheHas(plant_cache, wikipedia_url)

\* Wikidata, get_wikidata_id_from_wikipedia returns None: the empty dict is
\* cached, `continue`
WikidataNoId ==
    /\ WikidataMiss
    /\ LET wikipedia_url == reactors[idx + 1].WikipediaUrl
       IN  /\ lookups' = Append(lookups, [key |-> wikipedia_url, item |-> idx + 1])
           /\ plant_cache' = CachePut(plant_cache, wikipedia_url, << >>)
    /\ idx' = idx + 1
    /\ served' = "no id"
    /\ paced' = FALSE
    /\ UNCHANGED <<script, reactors, enriched_count, epc, saved, mergeVars, laterVars>>

\* Wikidata, an id is found: get_wikidata_properties, the cache write, the
\* fields, the pacing sleep, the periodic save
WikidataLookup(wikidata) ==
    /\ WikidataMiss
    /\ LET reactor == reactors[idx + 1]
           wikipedia_url == reactor.WikipediaUrl
           after == IF WikidataTruthy(wikidata)
                    THEN [reactors EXCEPT ![idx + 1] = ApplyWikidata(reactor, wikidata)]
                    ELSE reactors
       IN  /\ lookups' = Append(lookups, [key |-> wikipedia_url, item |-> idx + 1])
           /\ plant_cache' = CachePut(plant_cache, wikipedia_url, wikidata)
           /\ reactors' = after
           /\ enriched_count' = IF WikidataTruthy(wikidata) THEN enriched_count + 1
                                ELSE enriched_count
           /\ Checkpoint(after)
    /\ idx' = idx + 1
    /\ served' = "lookup"
    /\ paced' = TRUE
    /\ UNCHANGED <<script, epc, mergeVars, laterVars>>

\* the loop is over: "Saving final results"
FinalSaveAligned ==
    /\ epc = "loop"
    /\ idx = Len(reactors)
    /\ saved' = IF idx % SaveEvery = 0 THEN Dump(saved, reactors) ELSE saved
    /\ epc' = "done"
    /\ UNCHANGED <<script, reactors, plant_cache, enriched_count, idx, lookups,
                   served, paced, mergeVars, laterVars>>
FinalSave ==
    /\ epc = "loop"
    /\ idx = Len(reactors)
    /\ saved' = Dump(saved, reactors)
    /\ epc' = "done"
    /\ UNCHANGED <<script, reactors, plant_cache, enriched_count, idx, lookups,
                   served, paced, mergeVars, laterVars>>

EnrichNext ==
    \/ WikipediaCacheHit
    \/ \E wiki_info \in WikiResults : WikipediaLookup(wiki_info)
    \/ WikidataSkip
    \/ WikidataCacheHit
    \/ WikidataNoId
    \/ \E wikidata \in WikidataResults : WikidataLookup(wikidata)
    \/ FinalSave

SpecEnrich == EnrichInit /\ [][EnrichNext]_vars

\* the for loop runs over a finite list and every call in its body returns
\* (each request has a timeout, each sleep is finite): the script keeps
\* taking steps until it has none left
\* the inputs of the runs followed to their end: a never-enriched unit of
\* plant "a" and an enriched record of plant "b", after the padding
FairRecords ==
    {r \in EnrichRecords :
        \/ r.Name = <<"a", "-", "1">> /\ r.WikipediaUrl = NoneStr
        \/ r.Name = <<"b">> /\ r.WikipediaUrl = "u0"}
EnrichFairInit ==
    /\ EnrichInit
    /\ \A k \in 1..Len(reactors) : reactors[k] \in FairRecords \cup {PadRecord}
SpecEnrichFair == EnrichFairInit /\ [][EnrichNext]_vars /\ WF_vars(EnrichNext)

(***************************************************************************)
(* TableExtractor: IAEAReactorParser (fetch_iaea_data.py, parser "v1") and *)
(* ReactorTableParser (fetch_iaea_data_v2.py, parser "v2"), driven by the  *)
(* events HTMLParser.feed delivers. Attribute values and cell text are     *)
(* sequences of one-character strings.                                     *)
(***************************************************************************)
\* a dict key that is not there
AbsentText == <<"<absent>">>
AbsentInt == -2
\* None as the value of a text: a valueless attribute, a v1 empty cell
NoneText == <<NoneStr>>

\* `needle in hay` on str
Contains(hay, needle) ==
    \E k \in 1..(Len(hay) + 1) :
        /\ k + Len(needle) - 1 <= Len(hay)
        /\ SubSeq(hay, k, k + Len(needle) - 1) = needle

DigitValue(c) ==
    CASE c = "0" -> 0 [] c = "1" -> 1 [] c = "2" -> 2 [] c = "3" -> 3
      [] c = "4" -> 4 [] c = "5" -> 5 [] c = "6" -> 6 [] c = "7" -> 7
      [] c = "8" -> 8 [] c = "9" -> 9
AllDigits(s) == \A k \in 1..Len(s) : IsDigit(s[k])
RECURSIVE ToInt(_)
ToInt(ds) ==
    IF ds = << >> THEN 0
    ELSE 10 * ToInt(SubSeq(ds, 1, Len(ds) - 1)) + DigitValue(ds[Len(ds)])

\* str.replace(old, "") for a one-character old
RECURSIVE Remove(_, _)
Remove(s, c) ==
    IF s = << >> THEN << >>
    ELSE IF s[1] = c THEN Remove(Tail(s), c)
    ELSE <<s[1]>> \o Remove(Tail(s), c)

\* int(data.replace(",", "").replace(" ", "")): the number, or NoneInt for
\* ValueError (the texts of the model hold no sign and no underscore)
ParseCapacity(data) ==
    LET digits == Remove(Remove(data, ","), " ")
    IN  IF digits # << >> /\ AllDigits(digits) THEN ToInt(digits) ELSE NoneInt

\* the digits matched by (\d+) from position k on
DigitRun(s, k) ==
    LET stops == {j \in k..(Len(s) + 1) : j = Len(s) + 1 \/ ~IsDigit(s[j])}
    IN  SubSeq(s, k, (CHOOSE j \in stops : \A h \in stops : j <= h) - 1)

\* re.search(r"current=(\d+)", href): int(match.group(1)), NoneInt for no match
SearchCurrent(href) ==
    LET pat == <<"c", "u", "r", "r", "e", "n", "t", "=">>
        hits == {k \in 1..Len(href) :
                    /\ k + Len(pat) <= Len(href)
                    /\ SubSeq(href, k, k + Len(pat) - 1) = pat
                    /\ IsDigit(href[k + Len(pat)])}
    IN  IF hits = {} THEN NoneInt
        ELSE ToInt(DigitRun(href, (CHOOSE k \in hits : \A h \in hits : k <= h) + Len(pat)))

\* re.search(r"_(\d+)$", elem_id): int(match.group(1)), NoneInt for no match
SearchSuffix(elem_id) ==
    LET hits == {k \in 1..Len(elem_id) :
                    /\ elem_id[k] = "_"
                    /\ k < Len(elem_id)
                    /\ AllDigits(SubSeq(elem_id, k + 1, Len(elem_id)))}
    IN  IF hits = {} THEN NoneInt
        ELSE ToInt(SubSeq(elem_id, (CHOOSE k \in hits : TRUE) + 1, Len(elem_id)))

\* "tablesorter", "hypReactorName"
Selector == <<"t", "a", "b", "l", "e", "s", "o", "r", "t", "e", "r">>
LinkMarker == <<"h", "y", "p", "R", "e", "a", "c", "t", "o", "r", "N", "a", "m", "e">>

\* attrs_dict.get(key, ""): a valueless attribute is in the dict with None
AttrGet(attrs, key) == IF key \in DOMAIN attrs THEN attrs[key] ELSE << >>

\* the keys a row dict can have, in either parser
TextFields == {"name", "country", "status", "reactor_type", "location",
               "construction_start", "grid_connection", "commercial_operation"}
IntFields == {"capacity", "iaea_id", "row_index"}
\* current_reactor = {}
EmptyRow ==
    [f \in TextFields \cup IntFields |->
        IF f \in TextFields THEN AbsentText ELSE AbsentInt]

\* the parser object after __init__ (in_tbody and row_count are v2's)
NewParser ==
    [reactors |-> << >>, current_reactor |-> EmptyRow, in_table |-> FALSE,
     in_tbody |-> FALSE, in_row |-> FALSE, in_cell |-> FALSE, cell_index |-> 0,
     current_data |-> << >>, row_count |-> 0]

\* field_map of IAEAReactorParser.handle_endtag; "" for an index not in it
FieldMapV1(cell_index) ==
    CASE cell_index = 0 -> "name"
      [] cell_index = 1 -> "country"
      [] cell_index = 2 -> "status"
      [] cell_index = 3 -> "reactor_type"
      [] cell_index = 4 -> "capacity"
      [] cell_index = 5 -> "construction_start"
      [] cell_index = 6 -> "grid_connection"
      [] cell_index = 7 -> "commercial_operation"
      [] OTHER -> ""

\* the if/elif chain on cell_index of ReactorTableParser.handle_endtag
FieldMapV2Unskipped(cell_index) ==
    CASE cell_index = 0 -> "name"
      [] cell_index = 1 -> "reactor_type"
      [] cell_index = 2 -> "status"
      [] cell_index = 3 -> "location"
      [] cell_index = 4 -> "capacity"
      [] cell_index = 5 -> "grid_connection"
      [] OTHER -> ""
FieldMapV2(cell_index) ==
    CASE cell_index = 0 -> "name"
      [] cell_index = 1 -> "reactor_type"
      [] cell_index = 2 -> "status"
      [] cell_index = 3 -> "location"
      [] cell_index = 5 -> "capacity"
      [] cell_index = 6 -> "grid_connection"
      [] OTHER -> ""

\* self.current_reactor[field] = value. After self.reactors.append(
\* self.current_reactor) the list's last element and current_reactor are one
\* object (m.aliased) until a row-open rebinds current_reactor.
Put(m, field, value) ==
    LET row == [m.self.current_reactor EXCEPT ![field] = value]
        n == Len(m.self.reactors)
    IN  [m EXCEPT !.self.current_reactor = row,
                  !.self.reactors = IF m.aliased THEN [@ EXCEPT ![n] = row] ELSE @]

\* an exception leaves the handler: the object is as it was at the raise
Raise(m, exc) == [m EXCEPT !.raised = exc]

\* the td branch of IAEAReactorParser.handle_endtag, up to cell_index += 1
StoreCellV1(m, data) ==
    LET field == FieldMapV1(m.self.cell_index)
    IN  IF field = "" THEN m
        ELSE IF field = "capacity" /\ data # << >>
        THEN Put(m, field, ParseCapacity(data))
        ELSE IF field = "capacity" THEN Put(m, field, NoneInt)
        ELSE Put(m, field, IF data # << >> THEN data ELSE NoneText)

\* the td branch of ReactorTableParser.handle_endtag, up to cell_index += 1
StoreCellV2(m, data) ==
    LET field == FieldMapV2(m.self.cell_index)
    IN  IF field = "" THEN m
        ELSE IF field = "capacity"
        THEN IF data # << >> /\ ParseCapacity(data) # NoneInt
             THEN Put(m, field, ParseCapacity(data))
             ELSE m
        ELSE Put(m, field, Strip(data))

\* IAEAReactorParser.handle_starttag
StartV1(m, tag, attrs) ==
    IF tag = "table" /\ "class" \in DOMAIN attrs /\ attrs["class"] = NoneText
    THEN Raise(m, "TypeError")
    ELSE IF tag = "table" /\ "class" \in DOMAIN attrs
            /\ Contains(AttrGet(attrs, "class"), Selector)
    THEN [m EXCEPT !.self.in_table = TRUE]
    ELSE IF m.self.in_table /\ tag = "tr"
    THEN [m EXCEPT !.self.in_row = TRUE, !.self.cell_index = 0,
                   !.self.current_reactor = EmptyRow, !.aliased = FALSE]
    ELSE IF m.self.in_row /\ tag = "td"
    THEN [m EXCEPT !.self.in_cell = TRUE, !.self.current_data = << >>]
    ELSE IF m.self.in_cell /\ tag = "a"
    THEN LET href == AttrGet(attrs, "href")
         IN  IF href = NoneText THEN Raise(m, "TypeError")
             ELSE IF SearchCurrent(href) # NoneInt
             THEN Put(m, "iaea_id", SearchCurrent(href))
             ELSE m
    ELSE m

\* ReactorTableParser.handle_starttag
StartV2(m, tag, attrs) ==
    LET table_class == AttrGet(attrs, "class")
        m1 == IF tag = "table" /\ Contains(table_class, Selector)
              THEN [m EXCEPT !.self.in_table = TRUE] ELSE m
        elem_id == AttrGet(attrs, "id")
    IN  IF tag = "table" /\ table_class = NoneText THEN Raise(m, "TypeError")
        ELSE IF ~m1.self.in_table THEN m1
        ELSE IF tag = "tbody" THEN [m1 EXCEPT !.self.in_tbody = TRUE]
        ELSE IF tag = "tr" /\ m1.self.in_tbody
        THEN [m1 EXCEPT !.self.in_row = TRUE, !.self.cell_index = 0,
                        !.self.current_reactor = EmptyRow,
                        !.self.row_count = @ + 1, !.aliased = FALSE]
        ELSE IF tag = "td" /\ m1.self.in_row
        THEN [m1 EXCEPT !.self.in_cell = TRUE, !.self.current_data = << >>]
        ELSE IF tag = "a" /\ m1.self.in_cell
        THEN IF elem_id = NoneText THEN Raise(m1, "TypeError")
             ELSE IF Contains(elem_id, LinkMarker) /\ SearchSuffix(elem_id) # NoneInt
             THEN Put(m1, "row_index", SearchSuffix(elem_id))
             ELSE m1
        ELSE m1

\* `if self.current_reactor.get("name"): self.reactors.append(...)`
NameMissingAppending(row) == TRUE
NameTruthy(row) == row.name \notin {AbsentText, NoneText, << >>}
CloseRow(m) ==
    LET closed == [m EXCEPT !.self.in_row = FALSE]
    IN  IF NameTruthy(m.self.current_reactor)
        THEN [closed EXCEPT !.self.reactors = Append(@, m.self.current_reactor),
                            !.aliased = TRUE]
        ELSE closed

\* IAEAReactorParser.handle_endtag
EndV1(m, tag) ==
    IF tag = "table" THEN [m EXCEPT !.self.in_table = FALSE]
    ELSE IF tag = "tr" /\ m.self.in_row THEN CloseRow(m)
    ELSE IF tag = "td" /\ m.self.in_cell
    THEN LET stored == StoreCellV1([m EXCEPT !.self.in_cell = FALSE],
                                   Strip(m.self.current_data))
         IN  [stored EXCEPT !.self.cell_index = @ + 1]
    ELSE m

\* ReactorTableParser.handle_endtag
EndV2(m, tag) ==
    IF tag = "table" /\ m.self.in_table
    THEN [m EXCEPT !.self.in_table = FALSE, !.self.in_tbody = FALSE]
    ELSE IF tag = "tbody" THEN [m EXCEPT !.self.in_tbody = FALSE]
    ELSE IF tag = "tr" /\ m.self.in_row THEN CloseRow(m)
    ELSE IF tag = "td" /\ m.self.in_cell
    THEN LET stored == StoreCellV2([m EXCEPT !.self.in_cell = FALSE],
                                   Strip(m.self.current_data))
         IN  [stored EXCEPT !.self.cell_index = @ + 1]
    ELSE m

\* handle_data of both parsers
DataOverwriting(m, data) ==
    IF m.self.in_cell THEN [m EXCEPT !.self.current_data = data] ELSE m
Data(m, data) ==
    IF m.self.in_cell THEN [m EXCEPT !.self.current_data = @ \o data] ELSE m

(***************************************************************************)
(* Bounds and input domains of the extractor                               *)
(***************************************************************************)
MaxCells == 2       \* cells opened in one row of a malformed document
MaxColumns == 6     \* cells opened in one row of a table of rows
MaxEmitted == 2     \* rows opened, rows in the parser's output
MaxData == 2        \* text events in the document

\* the attributes of a <table>: none, a class holding the selector, another
\* class, a class attribute without a value
TableAttrs ==
    {<< >>,
     [k \in {"class"} |-> <<"x", " ">> \o Selector],
     [k \in {"class"} |-> <<"t", "a", "b", "l", "e">>],
     [k \in {"class"} |-> NoneText]}

\* the attributes of an <a>: a reactor link (PRIS page id 7, row 7), a link
\* to something else, attributes without a value
LinkAttrs ==
    {[k \in {"href", "id"} |->
        IF k = "href" THEN <<"?", "c", "u", "r", "r", "e", "n", "t", "=", "7">>
        ELSE LinkMarker \o <<"_", "7">>],
     [k \in {"href", "id"} |-> <<"x">>],
     [k \in {"href", "id"} |-> NoneText]}

\* the open tags of a document, with their attributes
StartEvents ==
    {[tag |-> "table", attrs |-> a] : a \in TableAttrs}
    \cup {[tag |-> "a", attrs |-> a] : a \in LinkAttrs}
    \cup {[tag |-> t, attrs |-> << >>] : t \in {"tbody", "tr", "td", "div"}}
EndTags == {"table", "tbody", "tr", "td", "a", "div"}
\* the text nodes: a padded name, a number with a separator, white space
DataChunks == {<<" ", "a">>, <<"1", ",">>, <<" ">>}

\* the open and close tags of a document that is one target table of rows
\* of cells, the table left open
RowStartEvents ==
    {e \in StartEvents :
        /\ e.tag \in {"table", "tbody", "tr", "td", "a"}
        /\ \A k \in DOMAIN e.attrs :
              e.attrs[k] # NoneText /\ (e.tag = "table" => Contains(e.attrs[k], Selector))
        /\ e.tag = "table" => e.attrs # << >>}
RowEndTags == {"tr", "td", "a"}

\* the parser object with what the model keeps about it
Machine == [self |-> self, aliased |-> aliased, raised |-> raised]

ExtractInit ==
    /\ parser \in {"v1", "v2"}
    /\ self = NewParser
    /\ aliased = FALSE
    /\ raised = "none"
    /\ ndata = 0
    /\ last_event = "none"
    /\ MergeIdle
    /\ EnrichIdle
    /\ RunIdle
    /\ NormIdle

\* feed() delivers events until a handler raises
Feeding == parser # "none" /\ raised = "none"

Deliver(m) ==
    /\ self' = m.self
    /\ aliased' = m.aliased
    /\ raised' = m.raised
    /\ UNCHANGED <<parser, mergeVars, enrichVars, runVars, normVars>>

handle_starttag(tag, attrs) ==
    /\ Feeding
    /\ Deliver(IF parser = "v1" THEN StartV1(Machine, tag, attrs)
               ELSE StartV2(Machine, tag, attrs))
    /\ UNCHANGED ndata

handle_endtag(tag) ==
    /\ Feeding
    /\ Deliver(IF parser = "v1" THEN EndV1(Machine, tag) ELSE EndV2(Machine, tag))
    /\ UNCHANGED ndata

handle_data(data) ==
    /\ Feeding
    /\ Deliver(Data(Machine, data))
    /\ ndata' = ndata + 1

\* the document has at most `cells` cells in a row, MaxEmitted rows and
\* MaxData text nodes
CanOpen(tag, cells) ==
    /\ tag = "td" => self.cell_index < cells
    /\ tag = "tr" => Len(self.reactors) < MaxEmitted /\ self.row_count < MaxEmitted
CanSay == ndata < MaxData

\* any sequence of events
StartTag ==
    \E e \in StartEvents :
        /\ CanOpen(e.tag, MaxCells)
        /\ handle_starttag(e.tag, e.attrs)
        /\ UNCHANGED last_event
EndTag == \E tag \in EndTags : handle_endtag(tag) /\ UNCHANGED last_event
Text == \E data \in DataChunks : CanSay /\ handle_data(data) /\ UNCHANGED last_event

ExtractNext ==
    \/ StartTag
    \/ EndTag
    \/ Text

SpecExtract == ExtractInit /\ [][ExtractNext]_vars

\* the events of a table of rows
RowStartTag ==
    \E e \in RowStartEvents :
        /\ CanOpen(e.tag, MaxColumns)
        /\ handle_starttag(e.tag, e.attrs)
        /\ UNCHANGED last_event
RowEndTag == \E tag \in RowEndTags : handle_endtag(tag) /\ UNCHANGED last_event

\* the rows have text in the name column and in the two power columns
TextColumns == {0, 4, 5}
RowText ==
    \E data \in DataChunks :
        /\ CanSay
        /\ self.in_cell => self.cell_index \in TextColumns
        /\ handle_data(data)
        /\ UNCHANGED last_event

RowsNext ==
    \/ RowStartTag
    \/ RowEndTag
    \/ RowText

SpecRows == ExtractInit /\ [][RowsNext]_vars

\* the events of one target table with or without a <tbody>, each recorded
\* as the latest event
TableStartEvents == RowStartEvents
TableEndTags == {"table", "tbody", "tr", "td", "a"}
TableChunks == {<<" ", "a">>}

TableStartTag ==
    \E e \in TableStartEvents :
        /\ CanOpen(e.tag, MaxCells)
        /\ handle_starttag(e.tag, e.attrs)
        /\ last_event' = "<" \o e.tag \o ">"
TableEndTag ==
    \E tag \in TableEndTags :
        /\ handle_endtag(tag)
        /\ last_event' = "</" \o tag \o ">"
TableText ==
    \E data \in TableChunks :
        /\ CanSay
        /\ handle_data(data)
        /\ last_event' = "text"

TablesNext ==
    \/ TableStartTag
    \/ TableEndTag
    \/ TableText

SpecTables == ExtractInit /\ [][TablesNext]_vars

(***************************************************************************)
(* The pipeline of a fetch script: the page is parsed, the parser's rows   *)
(* are handed to the merge                                                 *)
(***************************************************************************)
\* the str of a text
RECURSIVE Join(_)
Join(s) == IF s = << >> THEN "" ELSE s[1] \o Join(Tail(s))

\* what the merge reads of a parser row with iaea_reactor.get(...); v2's
\* fetch_country_reactors has set reactor["country"] = country_name before
ToRow(v, reactor, country_name) ==
    [name |-> reactor.name,
     country |-> IF v = "v2" THEN country_name
                 ELSE IF reactor.country \in {AbsentText, NoneText} THEN << >>
                 ELSE reactor.country,
     capacity |-> IF reactor.capacity = AbsentInt THEN NoneInt ELSE reactor.capacity,
     status |-> IF reactor.status = NoneText THEN NoneStr
                ELSE IF reactor.status = AbsentText
                THEN (IF v = "v2" THEN "" ELSE NoneStr)
                ELSE Join(reactor.status),
     iaea_id |-> IF reactor.iaea_id = AbsentInt THEN NoneInt ELSE reactor.iaea_id]

\* canonical files of one record without a capacity
PipelineFiles == {d \in CanonFiles : Len(d) = 1 /\ d[1].Capacity = NoneInt}
\* the country of the page being parsed
PageCountry == <<"c">>

PipelineInit ==
    /\ variant \in {"v1", "v2"}
    /\ parser = variant
    /\ self = NewParser
    /\ aliased = FALSE
    /\ raised = "none"
    /\ ndata = 0
    /\ last_event = "none"
    /\ data_file \in PipelineFiles
    /\ output_file = << >>
    /\ existing_data = << >>
    /\ existing_by_iaea = << >>
    /\ existing_by_name = << >>
    /\ iaea_reactors = << >>
    /\ stats = NoStats
    /\ now = 0
    /\ mpc = "feed"
    /\ i = 0
    /\ run = 0
    /\ last = NoLast
    /\ EnrichIdle
    /\ RunIdle
    /\ NormIdle

\* parser.feed(html): the events of the page, text in the name column
PageStartTag ==
    \E e \in RowStartEvents :
        /\ mpc = "feed"
        /\ CanOpen(e.tag, MaxCells)
        /\ handle_starttag(e.tag, e.attrs)
        /\ UNCHANGED last_event
PageEndTag ==
    \E tag \in {"tr", "td"} :
        /\ mpc = "feed"
        /\ handle_endtag(tag)
        /\ UNCHANGED last_event
PageText ==
    \E data \in TableChunks :
        /\ mpc = "feed"
        /\ CanSay
        /\ self.in_cell => self.cell_index = 0
        /\ handle_data(data)
        /\ UNCHANGED last_event

\* feed returns; the rows go to main and from there to the merge (v1's main
\* returns when there is no row)
HandOver ==
    /\ mpc = "feed"
    /\ iaea_reactors' = [k \in 1..Len(self.reactors) |->
                            ToRow(variant, self.reactors[k], PageCountry)]
    /\ mpc' = IF variant = "v1" /\ self.reactors = << >> THEN "done" ELSE "start"
    /\ UNCHANGED <<variant, data_file, output_file, existing_data, existing_by_iaea,
                   existing_by_name, stats, now, i, run, last, enrichVars, laterVars>>

PipelineNext ==
    \/ PageStartTag
    \/ PageEndTag
    \/ PageText
    \/ HandOver
    \/ Load
    \/ ReplayRow
    \/ ReplayFinish

SpecPipeline == PipelineInit /\ [][PipelineNext]_vars

(***************************************************************************)
(* FieldNormalizer: the status of an incoming row, normalized and          *)
(* normalized again                                                        *)
(***************************************************************************)
MaxApply == 3       \* successive applications of the status map

\* the keys of the status maps, a value that is not a key, None, "", and
\* texts that are in neither map
RawStatuses ==
    {"Operational", "Under Construction", "Permanent Shutdown",
     "Suspended Operation", "Suspended Construction", "Long-term Shutdown",
     "Planned", "Shutdown", NoneStr, "", "operational", "PERMANENT SHUTDOWN",
     "Permanent Shutdown ", "Decommissioned", "Cancelled", "Unknown"}

NormInit ==
    /\ incoming_status \in RawStatuses
    /\ applied = << >>
    /\ MergeIdle
    /\ EnrichIdle
    /\ ExtractIdle
    /\ RunIdle

\* the status map of script v applied to the latest result
Normalize(v) ==
    /\ Len(applied) < MaxApply
    /\ applied # << >> => applied[1].by = v
    /\ LET raw_status == IF applied = << >> THEN incoming_status
                         ELSE applied[Len(applied)].out
       IN  applied' = Append(applied,
                [by |-> v,
                 out |-> IF v = "v2" THEN map_status(raw_status)
                         ELSE map_status_v1(raw_status)])
    /\ UNCHANGED <<incoming_status, mergeVars, enrichVars, extractVars, runVars>>

NormalizeV1 == Normalize("v1")
NormalizeV2 == Normalize("v2")

NormNext ==
    \/ NormalizeV1
    \/ NormalizeV2

SpecNormalize == NormInit /\ [][NormNext]_vars

(***************************************************************************)
(* One run of a script: the requests it issues, the files it opens and     *)
(* writes, and the exception that ends it, in the order of main            *)
(***************************************************************************)
MaxPages == 2           \* countries of the list page / records of the input
DefaultRetries == 3     \* fetch_page(url, retries=3) of fetch_iaea_data_v2.py

FetchPrograms == {"fetch_iaea_data", "fetch_iaea_data_v2"}
EnrichPrograms == {"enrich_wikipedia", "enrich_wikidata"}

\* what urlopen(...), response.read(), .decode() and json.loads can raise
Failures ==
    {"HTTPError", "URLError", "TimeoutError", "UnicodeDecodeError",
     "JSONDecodeError"}
Outcomes == {"ok"} \cup Failures

\* except (HTTPError, URLError) of both fetch_page functions
CaughtByFetch == {"HTTPError", "URLError"}

Entry(op, outcome, secs) == [op |-> op, outcome |-> outcome, secs |-> secs]

RunInit ==
    /\ program \in FetchPrograms \cup EnrichPrograms
    /\ input_exists \in BOOLEAN
    /\ fpc = (IF program \in FetchPrograms THEN "list" ELSE "open")
    /\ retries = (IF program = "fetch_iaea_data_v2" THEN DefaultRetries ELSE 1)
    /\ attempt = 0
    /\ pages_left \in 0..MaxPages
    /\ log = << >>
    /\ exception = "none"
    /\ MergeIdle
    /\ EnrichIdle
    /\ ExtractIdle
    /\ NormIdle

\* one urlopen of fetch_page with its outcome, and what main does with the
\* page when fetch_page returns
fetch_page(outcome) ==
    /\ program \in FetchPrograms
    /\ fpc \in {"list", "pages"}
    /\ outcome # "JSONDecodeError"
    /\ LET req == Entry("request", outcome, 0)
       IN  CASE outcome \notin {"ok"} \cup CaughtByFetch ->
                  /\ log' = Append(log, req)
                  /\ exception' = outcome
                  /\ fpc' = "aborted"
                  /\ UNCHANGED <<attempt, pages_left>>
             [] outcome \in CaughtByFetch /\ attempt < retries - 1 ->
                  /\ log' = log \o <<req, Entry("sleep", "none", 2 ^ attempt)>>
                  /\ attempt' = attempt + 1
                  /\ UNCHANGED <<fpc, pages_left, exception>>
             [] OTHER ->
                  /\ attempt' = 0
                  /\ exception' = "none"
                  /\ IF fpc = "list"
                     THEN /\ log' = Append(log, req)
                          /\ pages_left' = pages_left
                          /\ fpc' = IF outcome # "ok" \/ pages_left = 0
                                    THEN "done"
                                    ELSE IF program = "fetch_iaea_data"
                                         THEN "open" ELSE "pages"
                     ELSE /\ log' = log \o <<req, Entry("rate_limit", "none", 0)>>
                          /\ pages_left' = pages_left - 1
                          /\ fpc' = IF pages_left = 1 THEN "open" ELSE "pages"
    /\ UNCHANGED <<program, input_exists, retries>>
    /\ UNCHANGED <<mergeVars, enrichVars, extractVars, normVars>>

\* with open(...) of the canonical file: update_local_data and
\* merge_with_existing in the fetch scripts, the head of enrich_reactors
open_input ==
    /\ fpc = "open"
    /\ IF input_exists
       THEN /\ log' = Append(log, Entry("open", "ok", 0))
            /\ exception' = "none"
            /\ fpc' = IF program \in EnrichPrograms /\ pages_left > 0
                      THEN "pages" ELSE "save"
       ELSE /\ log' = log
            /\ exception' = "FileNotFoundError"
            /\ fpc' = "aborted"
    /\ UNCHANGED <<program, input_exists, retries, attempt, pages_left>>
    /\ UNCHANGED <<mergeVars, enrichVars, extractVars, normVars>>

\* one lookup of an enrichment script: try: urlopen ... except Exception
lookup(outcome) ==
    /\ program \in EnrichPrograms
    /\ fpc = "pages"
    /\ log' = Append(log, Entry("request", outcome, 0))
    /\ pages_left' = pages_left - 1
    /\ fpc' = IF pages_left = 1 THEN "save" ELSE "pages"
    /\ UNCHANGED <<program, input_exists, retries, attempt, exception>>
    /\ UNCHANGED <<mergeVars, enrichVars, extractVars, normVars>>

\* the final json.dump; enrich_wikipedia then prints a percentage of
\* len(reactors)
save_output ==
    /\ fpc = "save"
    /\ log' = Append(log, Entry("write", "ok", 0))
    /\ IF program = "enrich_wikipedia"
          /\ \A k \in 1..Len(log) : log[k].op # "request"
       THEN exception' = "ZeroDivisionError" /\ fpc' = "aborted"
       ELSE exception' = "none" /\ fpc' = "done"
    /\ UNCHANGED <<program, input_exists, retries, attempt, pages_left>>
    /\ UNCHANGED <<mergeVars, enrichVars, extractVars, normVars>>

FetchPage == \E outcome \in Outcomes : fetch_page(outcome)
Lookup == \E outcome \in Outcomes : lookup(outcome)

RunNext ==
    \/ FetchPage
    \/ Lookup
    \/ open_input
    \/ save_output

SpecRun == RunInit /\ [][RunNext]_vars

(***************************************************************************)
(* One call of fetch_page(url, retries) of fetch_iaea_data_v2.py           *)
(***************************************************************************)
MaxRetries == 4         \* the largest retries a call is made with

FetchInit ==
    /\ program = "fetch_page"
    /\ input_exists = FALSE
    /\ fpc = "call"
    /\ retries \in 0..MaxRetries
    /\ attempt = 0
    /\ pages_left = 0
    /\ log = << >>
    /\ exception = "none"
    /\ MergeIdle
    /\ EnrichIdle
    /\ ExtractIdle
    /\ NormIdle

\* one iteration of `for attempt in range(retries)`: the request, and the
\* return, the raise or the except block that follows it
Attempt(outcome) ==
    /\ program = "fetch_page"
    /\ fpc = "call"
    /\ attempt < retries
    /\ outcome # "JSONDecodeError"
    /\ LET req == Entry("request", outcome, 0)
       IN  CASE outcome = "ok" ->
                  /\ log' = log \o <<req, Entry("return", "body", 0)>>
                  /\ fpc' = "returned"
                  /\ UNCHANGED <<attempt, exception>>
             [] outcome \in CaughtByFetch /\ attempt < retries - 1 ->
                  /\ log' = log \o <<req, Entry("sleep", "none", 2 ^ attempt)>>
                  /\ attempt' = attempt + 1
                  /\ UNCHANGED <<fpc, exception>>
             [] outcome \in CaughtByFetch /\ attempt >= retries - 1 ->
                  /\ log' = Append(log, req)
                  /\ attempt' = attempt + 1
                  /\ UNCHANGED <<fpc, exception>>
             [] OTHER ->
                  /\ log' = Append(log, req)
                  /\ exception' = outcome
                  /\ fpc' = "raised"
                  /\ UNCHANGED attempt
    /\ UNCHANGED <<program, input_exists, retries, pages_left>>
    /\ UNCHANGED <<mergeVars, enrichVars, extractVars, normVars>>

\* the loop is over: return ""
GiveUp ==
    /\ program = "fetch_page"
    /\ fpc = "call"
    /\ attempt >= retries
    /\ log' = Append(log, Entry("return", "", 0))
    /\ fpc' = "returned"
    /\ UNCHANGED <<program, input_exists, retries, attempt, pages_left, exception>>
    /\ UNCHANGED <<mergeVars, enrichVars, extractVars, normVars>>

TryOnce == \E outcome \in Outcomes : Attempt(outcome)

FetchNext ==
    \/ TryOnce
    \/ GiveUp

SpecFetch == FetchInit /\ [][FetchNext]_vars

(***************************************************************************)
(* Properties of the merge                                                 *)
(***************************************************************************)
\* a loop iteration of the merge has just run
RowStep == i' = i + 1

\* the fields the Reconciler may overwrite
Fields(rec) == <<rec.Capacity, rec.Status, rec.IAEAId>>

\* C1: when a row that was just reconciled into a record is reconciled into
\* the same record again, no Capacity, Status or IAEAId of any record is
\* overwritten and no change is reported or counted.
C1_RecordIdempotence ==
    [][(RowStep /\ last'.repeat) =>
          /\ ~last'.changed
          /\ stats'.updated = stats.updated
          /\ \A k \in 1..Len(existing_data) :
                Fields(existing_data'[k]) = Fields(existing_data[k])]_vars

\* a row that changed a record has been reconciled into it a second time
C1_Witness ==
    /\ last.repeat
    /\ last.match # 0
    /\ TruthyInt(last.row.capacity)
    /\ existing_data[last.match].Capacity = last.row.capacity
    /\ data_file[last.match].Capacity # last.row.capacity

\* C2: merging the same list again into the result of the first merge counts
\* no update and leaves every record as the first merge left it.
C2_RunIdempotence ==
    run = 2 => (stats.updated = 0 /\ existing_data = data_file)

\* C3: an absent incoming capacity (None) or status (None or "") leaves the
\* matched record's Capacity or Status as it was, and no step turns a
\* non-null Capacity or Status of any record into null.
C3_NoErasure ==
    [][RowStep =>
          /\ \A k \in 1..Len(existing_data) :
                /\ existing_data[k].Capacity # NoneInt
                      => existing_data'[k].Capacity # NoneInt
                /\ existing_data[k].Status # NoneStr
                      => existing_data'[k].Status # NoneStr
          /\ (last'.match # 0 /\ last'.row.capacity = NoneInt)
                => existing_data'[last'.match].Capacity
                      = existing_data[last'.match].Capacity
          /\ (last'.match # 0 /\ last'.row.status \in {NoneStr, ""})
                => existing_data'[last'.match].Status
                      = existing_data[last'.match].Status]_vars

\* a row without capacity and status was matched to a record that has both
C3_Witness ==
    /\ last.match # 0
    /\ last.row.capacity = NoneInt
    /\ last.row.status = NoneStr
    /\ existing_data[last.match].Capacity # NoneInt
    /\ existing_data[last.match].Status # NoneStr

\* C5: a row whose id equals the IAEAId of a record is reconciled into that
\* record, whatever its name and country.
C5_IdMatchWins ==
    [][RowStep =>
          \A k \in 1..Len(existing_data) :
              (TruthyInt(last'.row.iaea_id)
                  /\ existing_data[k].IAEAId = last'.row.iaea_id)
                  => last'.match = k]_vars

\* C6: a row matched by the name step has the lower-cased name and the
\* lower-cased country of the record it is matched to.
C6_NameMatchExact ==
    (last.match # 0 /\ DictGet(existing_by_iaea, last.row.iaea_id) = 0) =>
        /\ Lower(last.row.name) = Lower(existing_data[last.match].Name)
        /\ Lower(last.row.country) = Lower(existing_data[last.match].Country)

\* C7: an unmatched row changes no record and only increments the 'new'
\* counter; at every step the record list keeps its length and the names and
\* countries keep their positions.
C7_NoMatchFrame ==
    [][/\ (RowStep /\ last'.match = 0) =>
              /\ existing_data' = existing_data
              /\ stats' = [stats EXCEPT !.new = @ + 1]
       /\ mpc' # "start" =>
              /\ Len(existing_data') = Len(data_file')
              /\ \A k \in 1..Len(data_file') :
                    /\ existing_data'[k].Name = data_file'[k].Name
                    /\ existing_data'[k].Country = data_file'[k].Country]_vars

\* an unmatched row was processed against a non-empty record list
C7_Witness ==
    /\ i > 0
    /\ last.match = 0
    /\ stats.new > 0
    /\ Len(existing_data) > 0

\* C8: no two records of the merged list carry the same external id.
C8_IdsStayUnique == IdsUnique(existing_data)

(***************************************************************************)
(* Properties of the enrichment                                            *)
(***************************************************************************)
\* a loop iteration of an enrichment script has just run
ItemStep == idx' = idx + 1

\* the cached value is the negative marker (None, or the empty dict)
CacheNegative(value) ==
    IF script = "wikipedia" THEN ~WikiTruthy(value) ELSE ~WikidataTruthy(value)

\* C4: no step of an enrichment loop replaces a non-null Wikipedia* or
\* Wikidata* field of a reactor by null.
C4_EnrichNoErasure ==
    [][\A k \in 1..Len(reactors) : \A f \in EnrichFields :
          reactors[k][f] # NoneStr => reactors'[k][f] # NoneStr]_vars

\* C9: no cache key is looked up twice, each lookup is issued for the first
\* item that has its key, and an item whose key is in the cache is served
\* from the cache without a lookup.
C9_SingleFlight ==
    [][/\ \A a, b \in 1..Len(lookups') :
              a # b => lookups'[a].key # lookups'[b].key
       /\ \A a \in 1..Len(lookups') : \A j \in 1..(lookups'[a].item - 1) :
              ~(HasKey(script, reactors'[j])
                  /\ CacheKey(script, reactors'[j]) = lookups'[a].key)
       /\ (ItemStep /\ HasKey(script, reactors[idx + 1])
              /\ CacheKey(script, reactors[idx + 1]) \in DOMAIN plant_cache)
             => (lookups' = lookups /\ served' = "hit")]_vars

\* the second item of a plant was served from the cache after one lookup
C9_Witness ==
    /\ served = "hit"
    /\ idx = 2
    /\ Len(lookups) = 1
    /\ lookups[1].item = 1
    /\ lookups[1].key = CacheKey(script, reactors[2])

\* C10: an entry of plant_cache is never replaced or removed, and an item
\* whose key holds the negative marker is left as it is: no lookup, no field
\* written, no count.
C10_WriteOnce ==
    [][/\ \A key \in DOMAIN plant_cache :
              key \in DOMAIN plant_cache' /\ plant_cache'[key] = plant_cache[key]
       /\ (ItemStep /\ HasKey(script, reactors[idx + 1])
              /\ CacheKey(script, reactors[idx + 1]) \in DOMAIN plant_cache
              /\ CacheNegative(plant_cache[CacheKey(script, reactors[idx + 1])]))
             => UNCHANGED <<reactors, lookups, enriched_count, plant_cache>>]_vars

\* the run ended with a negative entry still in the cache, after a later
\* item with the same key was passed over
C10_Witness ==
    /\ epc = "done"
    /\ Len(reactors) = 2
    /\ HasKey(script, reactors[1])
    /\ HasKey(script, reactors[2])
    /\ CacheKey(script, reactors[1]) = CacheKey(script, reactors[2])
    /\ CacheNegative(plant_cache[CacheKey(script, reactors[2])])
    /\ enriched_count = 0

\* C11: once item 50*k has been processed, the output file has been written
\* and holds the in-memory record list, however that item was handled
\* (lookup, cache hit, no lookup key, lookup that found nothing).
C11_CheckpointCadence ==
    (idx > 0 /\ idx % SaveEvery = 0) =>
        (saved.writes > 0 /\ saved.content = reactors)

\* C12: every run reaches the end of the loop and then writes the output file
\* exactly once more, whatever the length of the input; the file then holds
\* the in-memory list, which has the input's records in the input's order.
C12_FinalCheckpoint ==
    /\ <>(epc = "done")
    /\ [](epc = "done" => (idx = Len(reactors) /\ saved.content = reactors))
    /\ [][/\ (epc = "loop" /\ epc' = "done") =>
                (idx = Len(reactors) /\ saved'.writes = saved.writes + 1)
          /\ epc = "done" => saved' = saved
          /\ Len(reactors') = Len(reactors)
          /\ \A k \in 1..Len(reactors) :
                \A f \in DOMAIN reactors[k] \ EnrichFields :
                    reactors'[k][f] = reactors[k][f]]_vars

\* a run over a list whose length is not a multiple of 50 has ended, with
\* enriched records in the file
C12_Witness ==
    /\ epc = "done"
    /\ Len(reactors) % SaveEvery # 0
    /\ enriched_count > 0
    /\ saved.writes = 1
    /\ saved.content = reactors

(***************************************************************************)
(* Properties of the extractor                                             *)
(***************************************************************************)
\* the row has a non-empty name
HasName(row) == row.name # AbsentText /\ row.name # NoneText /\ row.name # << >>

\* the step appends a row to the output
Emits == Len(self'.reactors) = Len(self.reactors) + 1

\* C13: a row is appended exactly when a row-close arrives while a row is
\* open and the row's name is non-empty; it is appended at the end, no other
\* step changes the length of the output, and every row of the output has a
\* non-empty name.
C13_RowEmission ==
    [][/\ Emits <=> (handle_endtag("tr") /\ self.in_row
                        /\ HasName(self.current_reactor))
       /\ Emits => self'.reactors = Append(self.reactors, self.current_reactor)
       /\ ~Emits => Len(self'.reactors) = Len(self.reactors)
       /\ \A k \in 1..Len(self'.reactors) : HasName(self'.reactors[k])]_vars

\* a row was emitted, and a later row that has a closed cell and no name was
\* closed and dropped
C13_Witness ==
    /\ raised = "none"
    /\ Len(self.reactors) = 1
    /\ ~self.in_row
    /\ ~aliased
    /\ self.cell_index > 0
    /\ ~HasName(self.current_reactor)

\* the column tables: fetch_iaea_data.py's field_map, and fetch_iaea_data_v2.py's
\* "Columns: Name, Type, Status, Location, Ref Unit Power, Gross Capacity,
\* First Grid" with Ref Unit Power skipped
ColumnsV1 == <<"name", "country", "status", "reactor_type", "capacity",
               "construction_start", "grid_connection", "commercial_operation">>
ColumnsV2 == <<"name", "reactor_type", "status", "location", "", "capacity",
               "grid_connection">>
ColumnOf(p, index) ==
    LET columns == IF p = "v1" THEN ColumnsV1 ELSE ColumnsV2
    IN  IF index + 1 \in 1..Len(columns) THEN columns[index + 1] ELSE ""

Mismatched(tag) ==
    \/ tag = "td" /\ ~self.in_cell
    \/ tag = "tr" /\ ~self.in_row
    \/ tag \notin {"table", "tbody", "tr", "td"}

\* C15: a cell-close with no cell open, a row-close with no row open and the
\* close of any other element change nothing of the parser, and no event
\* makes a handler fail.
C15_MismatchedCloseIgnored ==
    [][/\ \A tag \in EndTags :
            (handle_endtag(tag) /\ Mismatched(tag)) =>
                UNCHANGED <<self, aliased, raised>>
       /\ raised' = "none"]_vars

\* C19: while the parser is outside the target table (after a table-close,
\* before the next table-open with the selector) no text is accumulated, no
\* field is assigned and no row is emitted.
C19_TableCloseIdle ==
    [][(~self.in_table /\ ~self'.in_table) =>
          /\ self'.current_data = self.current_data
          /\ self'.current_reactor = self.current_reactor
          /\ self'.reactors = self.reactors]_vars

\* C20: in cell implies in row, and in row implies in table.
C20_StateHierarchy ==
    /\ self.in_cell => self.in_row
    /\ self.in_row => self.in_table

(***************************************************************************)
(* Properties of the normalizer                                            *)
(***************************************************************************)
\* the status tables as printed in the two scripts: raw text, canonical text
StatusTable(v) ==
    {<<"Operational", "Operational">>,
     <<"Under Construction", "Under Construction">>,
     <<"Permanent Shutdown", "Shutdown">>,
     <<"Suspended Operation", "Suspended Operation">>}
    \cup (IF v = "v2"
          THEN {<<"Suspended Construction", "Suspended Construction">>,
                <<"Long-term Shutdown", "Suspended Operation">>,
                <<"Planned", "Planned">>}
          ELSE {})

\* C16: the first normalization of a status returns the table's value when
\* the status is in the table and the status itself otherwise, and every
\* further normalization returns what it is given.
C16_StatusNormalization ==
    \A k \in 1..Len(applied) :
        /\ k = 1 =>
              /\ \A e \in StatusTable(applied[1].by) :
                    incoming_status = e[1] => applied[1].out = e[2]
              /\ (\A e \in StatusTable(applied[1].by) : incoming_status # e[1])
                    => applied[1].out = incoming_status
        /\ k > 1 => applied[k].out = applied[k - 1].out

\* "Long-term Shutdown" was normalized to "Suspended Operation" and then
\* normalized again, twice
C16_Witness ==
    /\ incoming_status = "Long-term Shutdown"
    /\ Len(applied) = 3
    /\ applied[1].by = "v2"
    /\ applied[1].out = "Suspended Operation"
    /\ applied[3].out = "Suspended Operation"

(***************************************************************************)
(* Properties of a run                                                     *)
(***************************************************************************)
Issued(op) == \E k \in 1..Len(log) : log[k].op = op

\* C17: when the canonical input file does not exist, the run never issues
\* a request and never writes a file, and it does not end normally.
C17_MissingInputFatal ==
    ~input_exists => (~Issued("request") /\ ~Issued("write") /\ fpc # "done")

\* C18: no failure of a request leaves fetch_page or a lookup as an
\* exception; the run goes on.
C18_FailuresDegrade ==
    exception \notin Failures

(***************************************************************************)
(* Properties of the enrichment loops: pacing and cache replay             *)
(***************************************************************************)
\* C27: a lookup is issued only when the lookup before it, made for an
\* earlier item, has been followed by a pacing delay.
C27_PacingAfterLookup ==
    [][Len(lookups') > Len(lookups) => paced]_vars

\* the fields a cached result writes, with their values, where the value is
\* non-empty
ResultFields(value) ==
    LET pairs == IF script = "wikipedia"
                 THEN {<<"WikipediaUrl", value.url>>, <<"WikipediaTitle", value.title>>,
                       <<"WikipediaExtract", value.extract>>,
                       <<"WikipediaThumbnail", value.thumbnail>>}
                 ELSE {<<WikidataField(key), value[key]>> : key \in DOMAIN value}
    IN  {e \in pairs : TruthyStr(e[2])}

\* the reactors whose cache key is key
Sharing(key) ==
    {k \in 1..Len(reactors) :
        HasKey(script, reactors[k]) /\ CacheKey(script, reactors[k]) = key}

\* the cache keys whose lookup returned a non-empty result
Resolved == {key \in DOMAIN plant_cache : ~CacheNegative(plant_cache[key])}

\* C28: when the run is over, every reactor whose cache key resolved to a
\* non-empty result holds that result's non-empty values, as the first
\* reactor with the key does, and enriched_count is the number of these
\* reactors.
C28_CacheReplay ==
    epc = "done" =>
        /\ \A key \in Resolved :
              LET sharing == Sharing(key)
                  first == CHOOSE j \in sharing : \A h \in sharing : j <= h
              IN  \A k \in sharing : \A e \in ResultFields(plant_cache[key]) :
                      /\ reactors[k][e[1]] = e[2]
                      /\ reactors[k][e[1]] = reactors[first][e[1]]
        /\ enriched_count = Cardinality(UNION {Sharing(key) : key \in Resolved})

\* the run is over: one lookup returned a result with a non-empty value, and
\* the second reactor of the plant got it from the cache
C28_Witness ==
    /\ epc = "done"
    /\ Len(reactors) = 2
    /\ Len(lookups) = 1
    /\ served = "hit"
    /\ enriched_count = 2
    /\ \E key \in Resolved :
          Sharing(key) = {1, 2} /\ ResultFields(plant_cache[key]) # {}

(***************************************************************************)
(* Properties of the extractor, on recorded events                         *)
(***************************************************************************)
\* C21: a row-open delivered inside the target table starts a new row: the
\* parser is in a row, the column counter is 0 and the row is empty.
C21_RowOpenStartsRow ==
    (last_event = "<tr>" /\ self.in_table) =>
        (self.in_row /\ self.cell_index = 0 /\ self.current_reactor = EmptyRow)

\* the flags, the counters and the text accumulator of the parser
Flags(p) == <<p.in_table, p.in_tbody, p.in_row, p.in_cell, p.cell_index, p.row_count>>
IdFields == {"iaea_id", "row_index"}

\* C22: a link-open in a cell changes at most the identifier of the row: the
\* text, the counter, the flags and the other fields stay. The text of a cell
\* starts empty at its cell-open, grows by every text event received in the
\* cell, is changed by no other event, and its trimmed value is what the
\* cell-close stores in a text field (null for an empty text in v1).
C22_LinkOpenFrame ==
    [][/\ \A attrs \in LinkAttrs :
            (last_event' = "<a>" /\ handle_starttag("a", attrs) /\ self.in_cell) =>
                /\ self'.current_data = self.current_data
                /\ Flags(self') = Flags(self)
                /\ Len(self'.reactors) = Len(self.reactors)
                /\ \A f \in DOMAIN self.current_reactor \ IdFields :
                      self'.current_reactor[f] = self.current_reactor[f]
       /\ (~self.in_cell /\ self'.in_cell) => self'.current_data = << >>
       /\ \A data \in TableChunks :
            (last_event' = "text" /\ handle_data(data) /\ self.in_cell) =>
                self'.current_data = self.current_data \o data
       /\ (self.in_cell /\ self'.in_cell /\ last_event' # "text") =>
            \/ self'.current_data = self.current_data
            \/ last_event' = "<td>" /\ self'.current_data = << >>
       /\ (last_event' = "</td>" /\ self.in_cell) =>
            LET field == ColumnOf(parser, self.cell_index)
                text == Strip(self.current_data)
            IN  field \in TextFields =>
                    self'.current_reactor[field] =
                        IF parser = "v1" /\ text = << >> THEN NoneText ELSE text]_vars

\* a cell with text before and inside a reactor link was closed: the name is
\* the two texts joined and trimmed, and the row has the link's identifier
C22_Witness ==
    /\ raised = "none"
    /\ ~self.in_cell
    /\ self.cell_index = 1
    /\ ndata = 2
    /\ self.current_reactor.name = <<"a", " ", "a">>
    /\ \E f \in IdFields : self.current_reactor[f] = 7

\* C23: the close of a capacity cell whose text, without commas and spaces,
\* spells no integer (or is empty) leaves the row without a capacity key,
\* raises nothing, changes no other field and moves the counter on by one.
C23_CapacityParseFailure ==
    [][(/\ handle_endtag("td")
        /\ self.in_cell
        /\ ColumnOf(parser, self.cell_index) = "capacity"
        /\ ParseCapacity(Strip(self.current_data)) = NoneInt) =>
            /\ self'.current_reactor.capacity = AbsentInt
            /\ raised' = "none"
            /\ self'.cell_index = self.cell_index + 1
            /\ \A f \in DOMAIN self.current_reactor \ {"capacity"} :
                  self'.current_reactor[f] = self.current_reactor[f]]_vars

\* C26: no event changes a row that is already in the parser's output.
C26_EmittedRowsFinal ==
    [][\A k \in 1..Len(self.reactors) :
          /\ k <= Len(self'.reactors)
          /\ self'.reactors[k] = self.reactors[k]]_vars

(***************************************************************************)
(* Properties of the merge: the revision timestamp                         *)
(***************************************************************************)
\* C24: a row reconciled into a record sets the record's LastUpdatedAt to
\* the merge's clock reading when it overwrote the record's Capacity, Status
\* or IAEAId, and leaves the whole record as it was when it overwrote none.
C24_TimestampTracksChanges ==
    [][(RowStep /\ last'.match # 0) =>
          LET old == existing_data[last'.match]
              new == existing_data'[last'.match]
          IN  IF Fields(new) # Fields(old)
              THEN new.LastUpdatedAt = now'
              ELSE new = old]_vars

(***************************************************************************)
(* Properties of the pipeline                                              *)
(***************************************************************************)
\* the identifier the extractor took from the row's link, AbsentInt if none
CapturedId(reactor) ==
    IF reactor.iaea_id # AbsentInt THEN reactor.iaea_id ELSE reactor.row_index

\* C25: a parsed row whose captured identifier is the IAEAId of a canonical
\* record is reconciled into that record, whatever its name.
C25_CapturedIdReachesMatcher ==
    [][(RowStep /\ parser # "none") =>
          \A k \in 1..Len(existing_data) :
              (/\ CapturedId(self.reactors[i + 1]) # AbsentInt
               /\ existing_data[k].IAEAId = CapturedId(self.reactors[i + 1]))
                  => last'.match = k]_vars

(***************************************************************************)
(* Properties of a fetch_page call                                         *)
(***************************************************************************)
Requests == {k \in 1..Len(log) : log[k].op = "request"}
\* the number of requests before position k of the log
Before(k) == Cardinality({j \in Requests : j < k})

\* the call has ended, by a return or by an exception
Ended == fpc \in {"returned", "raised"}

\* the bounded retry without its last clause: at most `retries` requests,
\* none after a successful one, whose body is what the call returns, and a
\* wait of 2^attempt seconds exactly between a failed request and the next
RetryShape ==
    /\ Cardinality(Requests) <= retries
    /\ \A k \in Requests : log[k].outcome = "ok" =>
          (k + 1 = Len(log) /\ log[k + 1] = Entry("return", "body", 0))
    /\ \A k \in 1..Len(log) : log[k].op = "sleep" =>
          /\ k > 1 /\ log[k - 1].op = "request" /\ log[k - 1].outcome # "ok"
          /\ log[k].secs = 2 ^ (Before(k) - 1)
          /\ Before(k) < retries
          /\ k < Len(log) => log[k + 1].op = "request"
    /\ \A k \in Requests :
          (k < Len(log) /\ log[k + 1].op = "request") => FALSE
    /\ \A k \in 1..Len(log) : log[k].op = "return" => (k = Len(log) /\ Ended)

\* C29: a call makes at most `retries` requests, stops at the first
\* successful one and returns its body, waits 2^attempt seconds only between
\* a failed request and the next, and ends by returning "" when every
\* request failed or retries is 0.
C29_BoundedRetry ==
    /\ RetryShape
    /\ exception = "none"
    /\ (Ended /\ \A k \in Requests : log[k].outcome # "ok") =>
          log[Len(log)] = Entry("return", "", 0)

====
